---- MODULE Spec2Model ----
(***************************************************************************)
(* A model of cargo-executable-payload (src/src/lib.rs):                   *)
(*   - the target resolver (bin_target_by_name, bin_target_by_src_path,    *)
(*     exactly_one_bin_target over bin_targets),                           *)
(*   - the orchestrator `build` with its helper `run_command`,             *)
(*   - the payload codec (base64::encode and the generated `decode`),      *)
(*   - the generated loader's `main`.                                      *)
(* Each part has its own specification over the shared variables.          *)
(***************************************************************************)
EXTENDS Integers, Sequences, FiniteSets, TLC

VARIABLES
    metadata,   \* cm::Metadata: [packages, workspace_members]
    query,      \* the selection the resolver was last called with
    res,        \* the resolver's anyhow::Result
    artifact,   \* the bytes `build` read from the scratch file
    PAYLOAD,    \* the generated program's static PAYLOAD (chars as ASCII codes)
    decoded,    \* what the generated decode() returned
    cpc,        \* codec position: "start", "encoded", "decoded"
    opt,        \* build's arguments: use_cross, strip_exe, no_upx, target, bin_name
    env,        \* the process environment: $CARGO set, the programs which_in finds
    pc,         \* build's position
    tempdir,    \* the TempDir build holds (its path), NoDir before it is created
    dirs,       \* the directories existing on disk
    files,      \* the files on disk: path -> bytes
    events,     \* what build did to the outside world, in order
    ret,        \* build's anyhow::Result<String>
    lpc,        \* the generated main's position
    lfile,      \* the file at PATH: exists, bytes, mode, synced
    lfd,        \* whether main holds the File open
    lops,       \* the system calls main made, in order, each with its outcome
    lret        \* how the generated program ended

resolverVars == <<metadata, query, res>>
codecVars == <<artifact, PAYLOAD, decoded, cpc>>
buildVars == <<opt, env, pc, tempdir, dirs, files, events, ret>>
loaderVars == <<lpc, lfile, lfd, lops, lret>>
vars == <<resolverVars, codecVars, buildVars, loaderVars>>

(***************************************************************************)
(* Bounds                                                                  *)
(***************************************************************************)
\* total number of targets in the workspace metadata
MaxTargets == 2
\* length of the artifact byte sequences given to the codec
MaxLen == 4
\* length of a bin target's name, in characters
MaxNameLen == 3

(***************************************************************************)
(* Target resolver                                                         *)
(***************************************************************************)
Names == {"a", "b"}
SrcPaths == {"/w/src/main.rs", "/w/src/bin/x.rs"}
\* cm::Target::kind is a Vec<String>
Kinds == {<<"bin">>, <<"lib">>, <<"bin", "lib">>}
PkgIds == <<"p1", "p2">>

Targets == [name : Names, kind : Kinds, src_path : SrcPaths]

NoQuery == [mode |-> "none"]
NoRes == [ok |-> FALSE, called |-> FALSE]
NotDecoded == [panic |-> "no", overflow |-> FALSE, acc |-> <<>>]

CodecIdle ==
    /\ artifact = <<>>
    /\ PAYLOAD = <<>>
    /\ decoded = NotDecoded
    /\ cpc = "start"

NoDir == <<>>
NoFiles == [p \in {} |-> <<>>]
NoRet == [ok |-> FALSE, err |-> "none", payload |-> <<>>]

NoFile == [exists |-> FALSE, bytes |-> <<>>, mode |-> 0, synced |-> FALSE]
NotEnded == [ended |-> "no", err |-> "none", image |-> <<>>, args |-> <<>>]

LoaderIdle ==
    /\ lpc = "idle"
    /\ lfile = NoFile
    /\ lfd = FALSE
    /\ lops = <<>>
    /\ lret = NotEnded

BuildIdle ==
    /\ opt = [use_cross |-> FALSE, strip_exe |-> FALSE, no_upx |-> FALSE,
              target |-> <<>>, bin_name |-> <<>>]
    /\ env = [CARGO |-> FALSE, onPath |-> {}]
    /\ pc = "idle"
    /\ tempdir = NoDir
    /\ dirs = {}
    /\ files = NoFiles
    /\ events = <<>>
    /\ ret = NoRet

\* p.targets.iter().map(move |t| (t, p)): references as (package index, target index)
TargetsOf(md, pi) ==
    [ti \in 1..Len(md.packages[pi].targets) |-> <<pi, ti>>]

RECURSIVE FlatMap(_, _)
FlatMap(md, pis) ==
    IF pis = <<>> THEN <<>>
    ELSE TargetsOf(md, Head(pis)) \o FlatMap(md, Tail(pis))

TargetAt(md, r) == md.packages[r[1]].targets[r[2]]
PackageAt(md, r) == md.packages[r[1]]

\* mutants of bin_targets: the membership filter dropped; kind tested by containment
bin_targets_no_membership(md) ==
    SelectSeq(FlatMap(md, [i \in 1..Len(md.packages) |-> i]),
           LAMBDA r : TargetAt(md, r).kind = <<"bin">>)

bin_targets(md) ==
    LET members == SelectSeq([i \in 1..Len(md.packages) |-> i],
                          LAMBDA i : md.packages[i].id \in md.workspace_members)
    IN  SelectSeq(FlatMap(md, members),
               LAMBDA r : TargetAt(md, r).kind = <<"bin">>)

Ok(md, r) == [ok |-> TRUE, called |-> TRUE, bin |-> r,
              target |-> TargetAt(md, r), package |-> PackageAt(md, r).id]
\* bail!(...): the message is its fixed text plus the values interpolated into it
Bail(text, names, paths) ==
    [ok |-> FALSE, called |-> TRUE,
     msg |-> [text |-> text, names |-> names, paths |-> paths]]

NamesOf(md, rs) == [i \in 1..Len(rs) |-> TargetAt(md, rs[i]).name]

bin_target_by_name(md, name) ==
    LET found == SelectSeq(bin_targets(md), LAMBDA r : TargetAt(md, r).name = name)
    IN  IF Len(found) = 0 THEN Bail("no bin target named", <<name>>, <<>>)
        ELSE IF Len(found) = 1 THEN Ok(md, found[1])
        ELSE Bail("multiple bin targets named", <<name>>, <<>>)

bin_target_by_src_path(md, src_path) ==
    LET found == SelectSeq(bin_targets(md), LAMBDA r : TargetAt(md, r).src_path = src_path)
    IN  IF Len(found) = 0
        THEN Bail("is not the main source file of any bin targets",
                  <<>>, <<src_path>>)
        ELSE IF Len(found) = 1 THEN Ok(md, found[1])
        ELSE Bail("multiple bin targets which src_path is", <<>>, <<src_path>>)

\* mutant of exactly_one_bin_target: the ambiguity message lists only the first binary
exactly_one_bin_target_first_only(md) ==
    LET found == bin_targets(md)
    IN  IF Len(found) = 0 THEN Bail("no bin target in this workspace", <<>>, <<>>)
        ELSE IF Len(found) = 1 THEN Ok(md, found[1])
        ELSE Bail("could not determine which binary to choose",
                  NamesOf(md, SubSeq(found, 1, 1)), <<>>)

exactly_one_bin_target(md) ==
    LET found == bin_targets(md)
    IN  IF Len(found) = 0 THEN Bail("no bin target in this workspace", <<>>, <<>>)
        ELSE IF Len(found) = 1 THEN Ok(md, found[1])
        ELSE Bail("could not determine which binary to choose",
                  NamesOf(md, found), <<>>)

\* cm::Metadata as loaded by cargo_metadata: the two packages in order, each with
\* its targets, and the ids of the workspace members
Metadata(t1, t2, m) ==
    [packages |-> << [id |-> PkgIds[1], targets |-> t1],
                     [id |-> PkgIds[2], targets |-> t2] >>,
     workspace_members |-> m]

ResolverIdle ==
    /\ metadata = Metadata(<<>>, <<>>, {})
    /\ query = NoQuery
    /\ res = NoRes

\* any workspace of two packages holding at most MaxTargets targets in all
InitResolve ==
    /\ \E n1 \in 0..MaxTargets : \E n2 \in 0..(MaxTargets - n1) :
          \E t1 \in [1..n1 -> Targets], t2 \in [1..n2 -> Targets],
             m \in SUBSET {PkgIds[1], PkgIds[2]} :
                metadata = Metadata(t1, t2, m)
    /\ query = NoQuery
    /\ res = NoRes
    /\ CodecIdle
    /\ BuildIdle
    /\ LoaderIdle

\* run: `--bin <NAME>`
ResolveByName ==
    \E name \in Names :
        /\ ~res.called
        /\ query' = [mode |-> "ByName", name |-> name]
        /\ res' = bin_target_by_name(metadata, name)
        /\ UNCHANGED metadata

\* run: `--src <PATH>`, already joined to the current directory
ResolveBySrcPath ==
    \E p \in SrcPaths :
        /\ ~res.called
        /\ query' = [mode |-> "BySourcePath", src_path |-> p]
        /\ res' = bin_target_by_src_path(metadata, p)
        /\ UNCHANGED metadata

\* run: neither option
ResolveInfer ==
    /\ ~res.called
    /\ query' = [mode |-> "Infer"]
    /\ res' = exactly_one_bin_target(metadata)
    /\ UNCHANGED metadata

NextResolve ==
    \/ ResolveByName /\ UNCHANGED <<codecVars, buildVars, loaderVars>>
    \/ ResolveBySrcPath /\ UNCHANGED <<codecVars, buildVars, loaderVars>>
    \/ ResolveInfer /\ UNCHANGED <<codecVars, buildVars, loaderVars>>

SpecResolve == InitResolve /\ [][NextResolve]_vars

(***************************************************************************)
(* Claims about the resolver                                               *)
(***************************************************************************)
\* all references to targets of the metadata
AllRefs(md) ==
    { r \in (1..Len(md.packages)) \X (1..MaxTargets) :
        r[2] <= Len(md.packages[r[1]].targets) }

Criterion(q, t) ==
    CASE q.mode = "ByName" -> t.name = q.name
      [] q.mode = "BySourcePath" -> t.src_path = q.src_path
      [] q.mode = "Infer" -> TRUE

\* the filtered candidate set of the claim: kind exactly ["bin"], owning package a
\* workspace member, and the mode's criterion
Candidates(md, q) ==
    { r \in AllRefs(md) :
        /\ TargetAt(md, r).kind = <<"bin">>
        /\ PackageAt(md, r).id \in md.workspace_members
        /\ Criterion(q, TargetAt(md, r)) }

\* C1: resolution returns a target iff the filtered candidate set (kind exactly
\* ["bin"], workspace member, mode criterion) has exactly one element, and then
\* the returned (target, package) pair is that element; otherwise it fails.
C1_ResolverCorrect ==
    res.called =>
        LET c == Candidates(metadata, query)
        IN  /\ res.ok <=> Cardinality(c) = 1
            /\ res.ok => /\ c = {res.bin}
                         /\ res.target = TargetAt(metadata, res.bin)
                         /\ res.package = PackageAt(metadata, res.bin).id

\* a resolution that succeeds although other targets (a non-member's bin, a target
\* of kind ["bin","lib"]) were filtered out
C1_Witness ==
    /\ res.called /\ res.ok
    /\ query.mode = "ByName"
    /\ \E r \in AllRefs(metadata) :
          /\ r # res.bin
          /\ TargetAt(metadata, r).name = query.name
          /\ TargetAt(metadata, r).kind = <<"bin">>
          /\ PackageAt(metadata, r).id \notin metadata.workspace_members

\* the names a failure message shows
Shown(m) == { m.names[i] : i \in 1..Len(m.names) }
Ambiguous == res.called /\ Cardinality(Candidates(metadata, query)) > 1

\* C2 (as stated): whenever resolution fails because more than one filtered
\* candidate matches, in any of the three modes, the failure message enumerates
\* the names of all matching targets.
C2_Original ==
    Ambiguous =>
        /\ ~res.ok
        /\ \A r \in Candidates(metadata, query) :
              TargetAt(metadata, r).name \in Shown(res.msg)

\* C2 (amended): on an ambiguity, Infer lists the name of every matching target,
\* in order; ByName shows only the queried name; BySourcePath shows only the
\* queried path and no target name.
C2_Amended ==
    Ambiguous =>
        /\ ~res.ok
        /\ query.mode = "Infer" =>
              /\ res.msg.names = NamesOf(metadata, bin_targets(metadata))
              /\ \A r \in Candidates(metadata, query) :
                    TargetAt(metadata, r).name \in Shown(res.msg)
              /\ res.msg.paths = <<>>
        /\ query.mode = "ByName" =>
              res.msg.names = <<query.name>> /\ res.msg.paths = <<>>
        /\ query.mode = "BySourcePath" =>
              res.msg.names = <<>> /\ res.msg.paths = <<query.src_path>>

\* an Infer ambiguity between differently named binaries
C2_Witness ==
    /\ Ambiguous
    /\ query.mode = "Infer"
    /\ Cardinality({ TargetAt(metadata, r).name : r \in Candidates(metadata, query) }) = 2

(***************************************************************************)
(* Payload codec: base64::encode in build, decode() in the generated code  *)
(***************************************************************************)
\* byte values covering all-zero, all-one, alternating bits, low and high bit, '='
ByteVals == {0, 1, 61, 85, 128, 170, 255}
PAD == 61

\* b"ABCDEFGHIJKLMNOPQRSTUVWXYZabcdefghijklmnopqrstuvwxyz0123456789+/"
ALPHABET ==
    [i \in 1..64 |->
        IF i <= 26 THEN 64 + i
        ELSE IF i <= 52 THEN 96 + (i - 26)
        ELSE IF i <= 62 THEN 47 + (i - 52)
        ELSE IF i = 63 THEN 43 ELSE 47]

Sym(v) == ALPHABET[v + 1]

\* base64::encode: standard alphabet, '=' padding, no line wrapping
RECURSIVE base64_encode(_)
base64_encode(b) ==
    IF Len(b) = 0 THEN <<>>
    ELSE IF Len(b) = 1 THEN
        << Sym(b[1] \div 4), Sym((b[1] % 4) * 16), PAD, PAD >>
    ELSE IF Len(b) = 2 THEN
        << Sym(b[1] \div 4), Sym((b[1] % 4) * 16 + b[2] \div 16),
           Sym((b[2] % 16) * 4), PAD >>
    ELSE
        << Sym(b[1] \div 4), Sym((b[1] % 4) * 16 + b[2] \div 16),
           Sym((b[2] % 16) * 4 + b[3] \div 64), Sym(b[3] % 64) >>
        \o base64_encode(SubSeq(b, 4, Len(b)))

\* let mut table = [0; 256]; table[usize::from(c)] = i as u8
table ==
    [c \in 0..255 |->
        IF \E i \in 1..64 : ALPHABET[i] = c
        THEN (CHOOSE i \in 1..64 : ALPHABET[i] = c) - 1
        ELSE 0]

\* mutant of Shl: the shifted-out bits are kept
ShlWide(x, n) == x * (2 ^ n)

\* u8 << n and u8 >> n: bits shifted out are discarded
Shl(x, n) == (x * (2 ^ n)) % 256
Shr(x, n) == x \div (2 ^ n)

\* the three bytes pushed for one chunk, as the u8 additions' exact sums
ChunkSums(chunk) ==
    LET index0 == table[chunk[1]]
        index1 == table[chunk[2]]
        index2 == table[chunk[3]]
        index3 == table[chunk[4]]
    IN  << Shl(index0, 2) + Shr(index1, 4),
           Shl(index1, 4) + Shr(index2, 2),
           Shl(index2, 6) + index3 >>

\* PAYLOAD.as_bytes().chunks(4): the last chunk holds what is left
RECURSIVE Chunks(_)
Chunks(p) ==
    IF Len(p) = 0 THEN <<>>
    ELSE IF Len(p) <= 4 THEN <<p>>
    ELSE <<SubSeq(p, 1, 4)>> \o Chunks(SubSeq(p, 5, Len(p)))

RECURSIVE Concat(_)
Concat(ss) == IF ss = <<>> THEN <<>> ELSE Head(ss) \o Concat(Tail(ss))

EndsWith(p, suffix) ==
    /\ Len(p) >= Len(suffix)
    /\ SubSeq(p, Len(p) - Len(suffix) + 1, Len(p)) = suffix

\* Vec::pop: nothing happens on an empty vector
Pop(acc) == IF Len(acc) = 0 THEN acc ELSE SubSeq(acc, 1, Len(acc) - 1)

\* decode() of the generated program.  chunk[3] of a chunk shorter than 4 panics
\* (index out of bounds); a u8 addition above 255 panics with overflow checks and
\* wraps without them, so the sum mod 256 is kept and the overflow recorded.
decode(payload) ==
    LET chunks == Chunks(payload)
        short == \E i \in 1..Len(chunks) : Len(chunks[i]) < 4
    IN  IF short THEN [panic |-> "index", overflow |-> FALSE, acc |-> <<>>]
        ELSE
          LET sums == Concat([i \in 1..Len(chunks) |-> ChunkSums(chunks[i])])
              acc == [i \in 1..Len(sums) |-> sums[i] % 256]
              out == IF EndsWith(payload, <<PAD, PAD>>) THEN Pop(Pop(acc))
                     ELSE IF EndsWith(payload, <<PAD>>) THEN Pop(acc)
                     ELSE acc
          IN  [panic |-> "no",
               overflow |-> \E i \in 1..Len(sums) : sums[i] > 255,
               acc |-> out]

InitCodec ==
    /\ \E n \in 0..MaxLen : artifact \in [1..n -> ByteVals]
    /\ PAYLOAD = <<>>
    /\ decoded = NotDecoded
    /\ cpc = "start"
    /\ ResolverIdle
    /\ BuildIdle
    /\ LoaderIdle

\* build: let artifact = base64::encode(artifact), embedded by format_with_template
Encode ==
    /\ cpc = "start"
    /\ PAYLOAD' = base64_encode(artifact)
    /\ cpc' = "encoded"
    /\ UNCHANGED <<artifact, decoded>>

\* the generated program runs decode()
Decode ==
    /\ cpc = "encoded"
    /\ decoded' = decode(PAYLOAD)
    /\ cpc' = "decoded"
    /\ UNCHANGED <<artifact, PAYLOAD>>

NextCodec ==
    \/ Encode /\ UNCHANGED <<resolverVars, buildVars, loaderVars>>
    \/ Decode /\ UNCHANGED <<resolverVars, buildVars, loaderVars>>

SpecCodec == InitCodec /\ [][NextCodec]_vars

\* C3: for every byte sequence b, the generated decoder run on the padded base64
\* encoding of b returns exactly b, every group has 4 characters and no 8-bit
\* addition exceeds 255.
C3_RoundTrip ==
    /\ cpc # "start" =>
          /\ Len(PAYLOAD) % 4 = 0
          /\ Len(PAYLOAD) = 4 * ((Len(artifact) + 2) \div 3)
    /\ cpc = "decoded" =>
          /\ decoded.panic = "no"
          /\ ~decoded.overflow
          /\ decoded.acc = artifact

\* a 4-byte input: one full group and one group padded with "=="
C3_Witness ==
    /\ cpc = "decoded"
    /\ Len(artifact) = 4
    /\ EndsWith(PAYLOAD, <<PAD, PAD>>)
    /\ decoded.acc = artifact

(***************************************************************************)
(* Build orchestrator: paths                                               *)
(***************************************************************************)
\* A path is a sequence of components and a component a sequence of tokens:
\* the token DOT is the character '.', any other token is text without a dot.
DOT == "."
NameChars == {"a", DOT}
Word(s) == << <<s>> >>

\* cm::Target::name values: a name that is "." or ".." is no file name
BinNames ==
    { n \in UNION { [1..k -> NameChars] : k \in 1..MaxNameLen } :
        n \notin {<<DOT>>, <<DOT, DOT>>} }

\* --target values: the default triple and a Windows one
LinuxTriple == <<"x86_64", "-", "unknown", "-", "linux", "-", "musl">>
WindowsTriple == <<"x86_64", "-", "pc", "-", "windows", "-", "gnu">>
Triples == {LinuxTriple, WindowsTriple}

\* metadata.target_directory and the bin package's manifest directory
target_dir == << <<"w">>, <<"target">> >>
manifest_dir == << <<"w">> >>
\* tempfile::Builder::new().prefix("cargo-executable-payload-"): a fresh name
\* under the system's temporary directory, with a random suffix
TempNames ==
    { << <<"tmp">>, <<"cargo-executable-payload-", r>> >> : r \in {"r1", "r2"} }

\* str::contains, on the tokens of a triple
Contains(target, word) == \E i \in 1..Len(target) : target[i] = word

\* Utf8Path::join, of one relative component
Join(path, component) == Append(path, component)
\* Path::file_name
file_name(path) == path[Len(path)]

\* Path::file_stem: the name up to its last dot, the whole name when it has no
\* dot or only a leading one
file_stem(name) ==
    LET dots == { i \in 1..Len(name) : name[i] = DOT }
        last == IF dots = {} THEN 0 ELSE CHOOSE i \in dots : \A j \in dots : j <= i
    IN  IF last <= 1 THEN name ELSE SubSeq(name, 1, last - 1)

\* PathBuf::set_extension: the file name becomes its stem, a dot and the extension
set_extension(path, ext) ==
    [path EXCEPT ![Len(path)] = file_stem(@) \o <<DOT>> \o ext]

\* build: the path the artifact is copied from
artifact_path(td, target, bin_name) ==
    LET joined == Join(Join(Join(td, target), <<"release">>), bin_name)
    IN  IF Contains(target, "windows") THEN set_extension(joined, <<"exe">>)
        ELSE joined

\* where `cargo build --release --bin <name> --target <triple>` leaves the
\* executable: <name>, and <name>.exe for a Windows target
CargoOutput(td, target, bin_name) ==
    Join(Join(Join(td, target), <<"release">>),
         IF Contains(target, "windows") THEN bin_name \o <<DOT, "exe">> ELSE bin_name)

\* mutant of scratch_path: the artifact path is not rebound to the copy
scratch_path_not_rebound(td, ap) == ap

\* build: let artifact_path = tempdir.path().join(artifact_file_name)
scratch_path(td, ap) == Join(td, file_name(ap))

Under(path, dir) ==
    /\ Len(path) > Len(dir)
    /\ SubSeq(path, 1, Len(dir)) = dir

(***************************************************************************)
(* Build orchestrator: external programs                                   *)
(***************************************************************************)
\* the programs a run may look for: $CARGO's value, cross, strip, the
\* --strip-exe path joined to the current directory, upx
CARGO == Word("cargo")
CROSS == Word("cross")
STRIP == Word("strip")
STRIP_EXE == << <<"w">>, <<"mystrip">> >>
UPX == Word("upx")
ProgNames == {"cargo", "cross", "strip", "mystrip", "upx"}

\* which::which_in(program, $PATH, cwd): a bare name is searched on the path, a
\* path with a directory is checked as it is
which_in(program, onPath) ==
    IF file_name(program)[1] \in onPath
    THEN [found |-> TRUE,
          path |-> IF Len(program) = 1 THEN << <<"bin">> >> \o program ELSE program]
    ELSE [found |-> FALSE, path |-> <<>>]

NoCmd == [program |-> <<>>, args |-> <<>>, cwd |-> <<>>]
Event(ev, cmd, src, path, ok) ==
    [ev |-> ev, cmd |-> cmd, src |-> src, path |-> path, ok |-> ok]

\* mutant of run_command: the child's exit status is not looked at
run_command_ignore_exit(evs, cwd, program, args, onPath, writeOk, exitOk) ==
    LET w == which_in(program, onPath)
        cmd == [program |-> w.path, args |-> args, cwd |-> cwd]
    IN  IF ~w.found THEN [events |-> evs, err |-> "does not seem to exist"]
        ELSE IF ~writeOk
        THEN [events |-> Append(evs, Event("Running", cmd, <<>>, <<>>, FALSE)),
              err |-> "io"]
        ELSE [events |-> evs \o << Event("Running", cmd, <<>>, <<>>, TRUE),
                                   Event("spawn", cmd, <<>>, <<>>, exitOk) >>,
              err |-> "none"]

\* mutant of run_command: the command is spawned before its line is written
run_command_spawn_first(evs, cwd, program, args, onPath, writeOk, exitOk) ==
    LET w == which_in(program, onPath)
        cmd == [program |-> w.path, args |-> args, cwd |-> cwd]
    IN  IF ~w.found THEN [events |-> evs, err |-> "does not seem to exist"]
        ELSE IF ~exitOk
        THEN [events |-> Append(evs, Event("spawn", cmd, <<>>, <<>>, FALSE)),
              err |-> "didn't exit successfully"]
        ELSE IF ~writeOk
        THEN [events |-> Append(evs, Event("spawn", cmd, <<>>, <<>>, TRUE)),
              err |-> "io"]
        ELSE [events |-> evs \o << Event("spawn", cmd, <<>>, <<>>, TRUE),
                                   Event("Running", cmd, <<>>, <<>>, TRUE) >>,
              err |-> "none"]

\* build::run_command: resolve the program, write the "Running" line
\* (shell.status), then run the command and look at its exit status.
\* writeOk: the line could be written (a failed write is the event "Running"
\* with ok FALSE); exitOk: the child exited with 0.
run_command(evs, cwd, program, args, onPath, writeOk, exitOk) ==
    LET w == which_in(program, onPath)
        cmd == [program |-> w.path, args |-> args, cwd |-> cwd]
    IN  IF ~w.found THEN [events |-> evs, err |-> "does not seem to exist"]
        ELSE IF ~writeOk
        THEN [events |-> Append(evs, Event("Running", cmd, <<>>, <<>>, FALSE)),
              err |-> "io"]
        ELSE IF ~exitOk
        THEN [events |-> evs \o << Event("Running", cmd, <<>>, <<>>, TRUE),
                                   Event("spawn", cmd, <<>>, <<>>, FALSE) >>,
              err |-> "didn't exit successfully"]
        ELSE [events |-> evs \o << Event("Running", cmd, <<>>, <<>>, TRUE),
                                   Event("spawn", cmd, <<>>, <<>>, TRUE) >>,
              err |-> "none"]

\* what the external tools do to the file they are given
BuiltBytes == <<127, 69, 76, 70>>
Stripped(bytes) == IF Len(bytes) = 0 THEN bytes ELSE SubSeq(bytes, 1, Len(bytes) - 1)
Packed(bytes) == <<85>> \o bytes

WriteFile(fs, path, bytes) == (path :> bytes) @@ fs
\* `strip -s <file>` and `upx --best <file>` rewrite the file in place
StripFile(fs, path) ==
    IF path \in DOMAIN fs THEN WriteFile(fs, path, Stripped(fs[path])) ELSE fs
PackFile(fs, path) ==
    IF path \in DOMAIN fs THEN WriteFile(fs, path, Packed(fs[path])) ELSE fs
\* remove_dir_all
RemoveAll(fs, dir) == [p \in { q \in DOMAIN fs : ~Under(q, dir) } |-> fs[p]]

(***************************************************************************)
(* Build orchestrator: build                                               *)
(***************************************************************************)
Opts ==
    [use_cross : BOOLEAN, strip_exe : BOOLEAN, no_upx : BOOLEAN,
     target : Triples, bin_name : BinNames]
Envs == [CARGO : BOOLEAN, onPath : SUBSET ProgNames]

InitBuild ==
    /\ opt \in Opts
    /\ env \in Envs
    /\ pc = "start"
    /\ tempdir = NoDir
    /\ dirs = {}
    /\ files = NoFiles
    /\ events = <<>>
    /\ ret = NoRet
    /\ ResolverIdle
    /\ CodecIdle
    /\ LoaderIdle

\* mutant of DropTempdir: the directory is kept (TempDir::into_path)
DropTempdirKeep(evs, rmOk) ==
    /\ dirs' = dirs
    /\ files' = files
    /\ events' = evs

\* TempDir::drop and TempDir::close: one remove_dir_all of the directory, which
\* the file system may refuse (rmOk)
DropTempdir(evs, rmOk) ==
    /\ dirs' = IF rmOk THEN dirs \ {tempdir} ELSE dirs
    /\ files' = IF rmOk THEN RemoveAll(files, tempdir) ELSE files
    /\ events' = Append(evs, Event("remove_dir_all", NoCmd, <<>>, tempdir, rmOk))

\* an early return by `?` or with_context: the error is returned and the TempDir
\* goes out of scope
Fail(err, evs) ==
    /\ ret' = [ok |-> FALSE, err |-> err, payload |-> <<>>]
    /\ pc' = "returned"
    /\ \E rmOk \in BOOLEAN : DropTempdir(evs, rmOk)
    /\ UNCHANGED <<opt, env, tempdir>>

\* lines 297-299: tempfile::Builder::new().prefix(..).tempdir()?
CreateTempdir ==
    /\ pc = "start"
    /\ \/ \E d \in TempNames \ dirs :
             /\ tempdir' = d
             /\ dirs' = dirs \cup {d}
             /\ events' = Append(events, Event("create_dir", NoCmd, <<>>, d, TRUE))
             /\ pc' = "build"
             /\ UNCHANGED <<opt, env, files, ret>>
       \/ /\ ret' = [ok |-> FALSE, err |-> "io", payload |-> <<>>]
          /\ pc' = "returned"
          /\ UNCHANGED <<opt, env, tempdir, dirs, files, events>>

BuildArgs ==
    << Word("build"), Word("--release"), Word("--bin"), <<opt.bin_name>>,
       Word("--target"), <<opt.target>> >>

\* lines 301-314: choose the builder and run it in the manifest directory
InvokeBuild ==
    /\ pc = "build"
    /\ IF ~opt.use_cross /\ ~env.CARGO
       THEN Fail("$CARGO is not present", events)
       ELSE \E writeOk \in BOOLEAN, exitOk \in BOOLEAN :
              LET program == IF opt.use_cross THEN CROSS ELSE CARGO
                  r == run_command(events, manifest_dir, program, BuildArgs,
                                   env.onPath, writeOk, exitOk)
              IN  IF r.err # "none" THEN Fail(r.err, r.events)
                  ELSE /\ events' = r.events
                       /\ files' = WriteFile(files,
                                      CargoOutput(target_dir, opt.target, opt.bin_name),
                                      BuiltBytes)
                       /\ pc' = "copy"
                       /\ UNCHANGED <<opt, env, tempdir, dirs, ret>>

\* lines 316-323: compute the artifact path and copy the file into the TempDir
CopyArtifact ==
    /\ pc = "copy"
    /\ LET src == artifact_path(target_dir, opt.target, opt.bin_name)
           dest == Join(tempdir, file_name(src))
       IN  \E ioOk \in BOOLEAN :
             IF ioOk /\ src \in DOMAIN files
             THEN /\ files' = WriteFile(files, dest, files[src])
                  /\ events' = Append(events, Event("copy", NoCmd, src, dest, TRUE))
                  /\ pc' = "strip"
                  /\ UNCHANGED <<opt, env, tempdir, dirs, ret>>
             ELSE Fail("io", Append(events, Event("copy", NoCmd, src, dest, FALSE)))

\* the path lines 325-342 use for the artifact
ScratchArtifact ==
    scratch_path(tempdir, artifact_path(target_dir, opt.target, opt.bin_name))

\* mutant of Strip: a missing strip is an error
StripMandatory ==
    /\ pc = "strip"
    /\ \E writeOk \in BOOLEAN, exitOk \in BOOLEAN :
         LET program == IF opt.strip_exe THEN STRIP_EXE ELSE STRIP
             r == run_command(events, manifest_dir, program,
                              << Word("-s"), ScratchArtifact >>,
                              env.onPath, writeOk, exitOk)
         IN  IF r.err # "none" THEN Fail(r.err, r.events)
             ELSE /\ events' = r.events
                  /\ files' = StripFile(files, ScratchArtifact)
                  /\ pc' = "upx"
                  /\ UNCHANGED <<opt, env, tempdir, dirs, ret>>

\* lines 327-331: strip the copy if a strip program is found
Strip ==
    /\ pc = "strip"
    /\ LET program == IF opt.strip_exe THEN STRIP_EXE ELSE STRIP
           w == which_in(program, env.onPath)
       IN  IF ~w.found
           THEN /\ pc' = "upx"
                /\ UNCHANGED <<opt, env, tempdir, dirs, files, events, ret>>
           ELSE \E writeOk \in BOOLEAN, exitOk \in BOOLEAN :
                  LET r == run_command(events, manifest_dir, w.path,
                                       << Word("-s"), ScratchArtifact >>,
                                       env.onPath, writeOk, exitOk)
                  IN  IF r.err # "none" THEN Fail(r.err, r.events)
                      ELSE /\ events' = r.events
                           /\ files' = StripFile(files, ScratchArtifact)
                           /\ pc' = "upx"
                           /\ UNCHANGED <<opt, env, tempdir, dirs, ret>>

\* lines 333-340: compress the copy unless --no-upx, if upx is found
Upx ==
    /\ pc = "upx"
    /\ LET w == which_in(UPX, env.onPath)
       IN  IF opt.no_upx \/ ~w.found
           THEN /\ pc' = "read"
                /\ UNCHANGED <<opt, env, tempdir, dirs, files, events, ret>>
           ELSE \E writeOk \in BOOLEAN, exitOk \in BOOLEAN :
                  LET r == run_command(events, manifest_dir, w.path,
                                       << Word("--best"), ScratchArtifact >>,
                                       env.onPath, writeOk, exitOk)
                  IN  IF r.err # "none" THEN Fail(r.err, r.events)
                      ELSE /\ events' = r.events
                           /\ files' = PackFile(files, ScratchArtifact)
                           /\ pc' = "read"
                           /\ UNCHANGED <<opt, env, tempdir, dirs, ret>>

\* lines 342-346: read the copy, encode it, close the TempDir, return the payload
ReadEncodeClose ==
    /\ pc = "read"
    /\ \E ioOk \in BOOLEAN :
         IF ioOk /\ ScratchArtifact \in DOMAIN files
         THEN LET bytes == files[ScratchArtifact]
                  evs == events \o
                         << Event("read", NoCmd, ScratchArtifact, <<>>, TRUE),
                            Event("encode", NoCmd, <<>>, <<>>, TRUE) >>
              IN  \E rmOk \in BOOLEAN :
                    /\ DropTempdir(evs, rmOk)
                    /\ ret' = IF rmOk
                              THEN [ok |-> TRUE, err |-> "none",
                                    payload |-> base64_encode(bytes)]
                              ELSE [ok |-> FALSE, err |-> "io", payload |-> <<>>]
                    /\ pc' = "returned"
                    /\ UNCHANGED <<opt, env, tempdir>>
         ELSE Fail("io", Append(events,
                                Event("read", NoCmd, ScratchArtifact, <<>>, FALSE)))

NextBuild ==
    \/ CreateTempdir /\ UNCHANGED <<resolverVars, codecVars, loaderVars>>
    \/ InvokeBuild /\ UNCHANGED <<resolverVars, codecVars, loaderVars>>
    \/ CopyArtifact /\ UNCHANGED <<resolverVars, codecVars, loaderVars>>
    \/ Strip /\ UNCHANGED <<resolverVars, codecVars, loaderVars>>
    \/ Upx /\ UNCHANGED <<resolverVars, codecVars, loaderVars>>
    \/ ReadEncodeClose /\ UNCHANGED <<resolverVars, codecVars, loaderVars>>

SpecBuild == InitBuild /\ [][NextBuild]_vars

(***************************************************************************)
(* Claims about build                                                      *)
(***************************************************************************)
Returned == pc = "returned"
Created == tempdir # NoDir
EventIdx == 1..Len(events)
Program(e) == file_name(e.cmd.program)[1]

\* the step of build an event belongs to
StepOf(e) ==
    CASE e.ev = "create_dir" -> 0
      [] e.ev \in {"Running", "spawn"} /\ Program(e) \in {"cargo", "cross"} -> 1
      [] e.ev = "copy" -> 2
      [] e.ev \in {"Running", "spawn"} /\ Program(e) \in {"strip", "mystrip"} -> 3
      [] e.ev \in {"Running", "spawn"} /\ Program(e) = "upx" -> 4
      [] e.ev = "read" -> 5
      [] e.ev = "encode" -> 6
      [] e.ev = "remove_dir_all" -> 7

Spawned(k) == \E i \in EventIdx : events[i].ev = "spawn" /\ StepOf(events[i]) = k
Logged(k) == \E i \in EventIdx : events[i].ev = "Running" /\ StepOf(events[i]) = k
Did(ev) == \E i \in EventIdx : events[i].ev = ev /\ events[i].ok
Removals == { i \in EventIdx : events[i].ev = "remove_dir_all" }

\* C4 (as stated): after any run of build in which the scratch directory was
\* created, the directory does not exist on disk when build returns, on success
\* and on every failure path.
C4_Original ==
    (Returned /\ Created) => tempdir \notin dirs

\* C4 (amended): in any such run build removes the scratch directory exactly
\* once, as the last thing it does before it returns, on success and on every
\* failure path; the directory and its files are gone when build returns unless
\* that removal itself fails, and then build returns no payload.
C4_Amended ==
    /\ ~Returned => /\ Removals = {}
                    /\ Created => tempdir \in dirs
    /\ (Returned /\ Created) =>
          /\ Removals = {Len(events)}
          /\ events[Len(events)].path = tempdir
          /\ events[Len(events)].ok =>
                /\ tempdir \notin dirs
                /\ \A p \in DOMAIN files : ~Under(p, tempdir)
          /\ ~events[Len(events)].ok => ~ret.ok /\ tempdir \in dirs

\* build failed in the strip step, after the copy was made, and the directory
\* with the copy is gone
C4_Witness ==
    /\ Returned /\ Created /\ ~ret.ok
    /\ Did("copy")
    /\ \E i \in EventIdx : events[i].ev = "spawn" /\ StepOf(events[i]) = 3 /\ ~events[i].ok
    /\ tempdir \notin dirs
    /\ \A p \in DOMAIN files : ~Under(p, tempdir)

\* C5: the steps run in the order build, copy, strip, compress, read and encode,
\* each at most once and only after the steps before it succeeded or were
\* skipped; after a builder that is not found, a non-zero exit, or a failed copy
\* or read, nothing more is run and build returns an error.
C5_Sequential ==
    /\ \A i \in EventIdx : \A j \in EventIdx :
          (i < j /\ events[i].ev # "Running" /\ events[j].ev # "Running")
             => StepOf(events[i]) < StepOf(events[j])
    /\ \A i \in EventIdx :
          (~events[i].ok /\ events[i].ev # "remove_dir_all")
             => /\ \A j \in EventIdx : j > i => events[j].ev = "remove_dir_all"
                /\ Returned /\ ~ret.ok
    /\ \A i \in EventIdx :
          /\ StepOf(events[i]) >= 1 => Did("create_dir")
          /\ events[i].ev = "copy" => Spawned(1)
          /\ StepOf(events[i]) \in {3, 4, 5} => Did("copy")
          /\ events[i].ev = "encode" => Did("read")
    /\ (Returned /\ ret.err = "does not seem to exist") =>
          \A i \in EventIdx : events[i].ev \in {"create_dir", "remove_dir_all"}
    /\ ret.ok => /\ Returned
                 /\ Did("encode")
                 /\ \A i \in EventIdx : events[i].ok

\* strip ran and exited non-zero after a successful build and copy: neither the
\* compressor nor the read follows
C5_Witness ==
    /\ Returned /\ ~ret.ok
    /\ Spawned(1) /\ Did("copy")
    /\ \E i \in EventIdx : events[i].ev = "spawn" /\ StepOf(events[i]) = 3 /\ ~events[i].ok
    /\ which_in(UPX, env.onPath).found /\ ~opt.no_upx
    /\ ~Spawned(4)

StripFound == which_in(IF opt.strip_exe THEN STRIP_EXE ELSE STRIP, env.onPath).found
UpxWanted == ~opt.no_upx /\ which_in(UPX, env.onPath).found
BuilderFound == which_in(IF opt.use_cross THEN CROSS ELSE CARGO, env.onPath).found
\* the scratch file as left by the optional steps that run
Expected ==
    LET stripped == IF StripFound THEN Stripped(BuiltBytes) ELSE BuiltBytes
    IN  IF UpxWanted THEN Packed(stripped) ELSE stripped

\* C6: a missing strip tool or compressor never fails the run: strip is run iff
\* it is found, the compressor iff compression is not skipped and it is found;
\* otherwise the step is passed over without a "Running" line, and on success the
\* payload encodes the scratch file as left by the steps that ran.
C6_BestEffort ==
    /\ (Spawned(3) \/ Logged(3)) => StripFound
    /\ (Spawned(4) \/ Logged(4)) => UpxWanted
    /\ (pc \in {"upx", "read"} \/ ret.ok) => (Spawned(3) <=> StripFound)
    /\ (pc = "read" \/ ret.ok) => (Spawned(4) <=> UpxWanted)
    /\ (Returned /\ ret.err = "does not seem to exist") => ~BuilderFound
    /\ ret.ok => ret.payload = base64_encode(Expected)

\* the compressor is wanted but missing: the run succeeds with the stripped,
\* uncompressed artifact and no line about the compressor
C6_Witness ==
    /\ Returned /\ ret.ok
    /\ ~opt.no_upx /\ ~which_in(UPX, env.onPath).found
    /\ Spawned(3) /\ ~Logged(4)
    /\ ret.payload = base64_encode(Stripped(BuiltBytes))

BuildDone == \E i \in EventIdx : events[i].ev = "spawn" /\ StepOf(events[i]) = 1 /\ events[i].ok

\* C7: the scratch directory is not the build-output directory, and once the
\* build step is over nothing is written there: the artifact is only copied
\* from, strip and the compressor are given the copy in the scratch directory,
\* and the built artifact keeps its bytes.
C7_OutputReadOnly ==
    /\ Created => /\ tempdir # target_dir
                  /\ ~Under(tempdir, target_dir)
                  /\ ~Under(target_dir, tempdir)
    /\ \A i \in EventIdx :
          LET e == events[i]
          IN  /\ e.ev = "copy" =>
                    /\ Under(e.path, tempdir) /\ ~Under(e.path, target_dir)
                    /\ Under(e.src, target_dir)
              /\ (e.ev \in {"Running", "spawn"} /\ StepOf(e) \in {3, 4}) =>
                    /\ Len(e.cmd.args) = 2
                    /\ Under(e.cmd.args[2], tempdir)
                    /\ ~Under(e.cmd.args[2], target_dir)
              /\ e.ev = "remove_dir_all" => e.path = tempdir
    /\ BuildDone =>
          /\ CargoOutput(target_dir, opt.target, opt.bin_name) \in DOMAIN files
          /\ \A p \in DOMAIN files :
                Under(p, target_dir) =>
                   /\ p = CargoOutput(target_dir, opt.target, opt.bin_name)
                   /\ files[p] = BuiltBytes

\* strip and the compressor both ran and the run succeeded
C7_Witness ==
    /\ Returned /\ ret.ok
    /\ Spawned(3) /\ Spawned(4)
    /\ files[CargoOutput(target_dir, opt.target, opt.bin_name)] = BuiltBytes
    /\ ret.payload = base64_encode(Packed(Stripped(BuiltBytes)))

\* C9: every tool build spawns has its "Running" line, with the resolved program
\* path and the arguments, written just before it; each line written is followed
\* by that one spawn, and when the line cannot be written the tool is not spawned.
C9_RunningBeforeSpawn ==
    \A i \in EventIdx :
        /\ events[i].ev = "spawn" =>
              /\ i > 1
              /\ events[i - 1].ev = "Running" /\ events[i - 1].ok
              /\ events[i - 1].cmd = events[i].cmd
              /\ which_in(events[i].cmd.program, env.onPath).path = events[i].cmd.program
        /\ (events[i].ev = "Running" /\ events[i].ok) =>
              /\ i < Len(events)
              /\ events[i + 1].ev = "spawn"
              /\ events[i + 1].cmd = events[i].cmd
        /\ (events[i].ev = "Running" /\ ~events[i].ok) =>
              \A j \in EventIdx : j > i => events[j].ev # "spawn"

\* the builder, strip and the compressor all ran
C9_Witness ==
    /\ Returned /\ ret.ok
    /\ Spawned(1) /\ Spawned(3) /\ Spawned(4)
    /\ Cardinality({ i \in EventIdx : events[i].ev = "Running" }) = 3

\* the artifact path of the claim: the suffix appended to the whole target name
AppendedPath ==
    Join(Join(Join(target_dir, opt.target), <<"release">>),
         IF opt.target = WindowsTriple THEN opt.bin_name \o <<DOT, "exe">>
         ELSE opt.bin_name)

\* C10: the path build copies from is target_directory/platform_triple/release/
\* <target_name>, with the executable suffix appended to the whole target name
\* for a Windows triple and nothing appended or removed otherwise.
C10_ArtifactPath ==
    \A i \in EventIdx : events[i].ev = "copy" => events[i].src = AppendedPath

(***************************************************************************)
(* The generated program: main                                             *)
(***************************************************************************)
\* Permissions::from_mode(0o755)
MODE_0755 == 493
\* the mode File::create gives a new file (0o666 under umask 022)
MODE_NEW == 420
\* the mode of a file already at PATH, left by someone else (0o600)
MODE_OLD == 384
OldBytes == <<1, 2, 3>>

\* the program is generated with PAYLOAD = base64::encode(artifact); a file may
\* already be at PATH
InitLoader ==
    /\ \E n \in 0..MaxLen : artifact \in [1..n -> ByteVals]
    /\ PAYLOAD = base64_encode(artifact)
    /\ decoded = NotDecoded
    /\ cpc = "encoded"
    /\ lpc = "create"
    /\ lfile \in {NoFile,
                  [exists |-> TRUE, bytes |-> OldBytes, mode |-> MODE_OLD, synced |-> TRUE]}
    /\ lfd = FALSE
    /\ lops = <<>>
    /\ lret = NotEnded
    /\ ResolverIdle
    /\ BuildIdle

\* mutant of Try: the error is ignored (`let _ = ...` instead of `?`)
TryIgnoreError(op, ok, next) ==
    /\ lops' = Append(lops, [op |-> op, ok |-> ok])
    /\ lpc' = next
    /\ lret' = lret

\* `<call>?` in main: go on when the call succeeded, end main with the io::Error
\* otherwise
Try(op, ok, next) ==
    /\ lops' = Append(lops, [op |-> op, ok |-> ok])
    /\ lpc' = IF ok THEN next ELSE "exited"
    /\ lret' = IF ok THEN lret ELSE [lret EXCEPT !.ended = "Err", !.err = op]

\* let mut file = File::create(PATH)?
Create ==
    /\ lpc = "create"
    /\ \E ok \in BOOLEAN :
         /\ Try("create", ok, "write_all")
         /\ lfile' = IF ok
                     THEN [exists |-> TRUE, bytes |-> <<>>,
                           mode |-> IF lfile.exists THEN lfile.mode ELSE MODE_NEW,
                           synced |-> FALSE]
                     ELSE lfile
         /\ lfd' = ok
    /\ UNCHANGED codecVars

\* file.write_all(&decode())?: a failed write may leave any prefix in the file
WriteAll ==
    /\ lpc = "write_all"
    /\ decoded' = decode(PAYLOAD)
    /\ cpc' = "decoded"
    /\ IF decoded'.panic # "no"
       THEN /\ lpc' = "exited"
            /\ lret' = [lret EXCEPT !.ended = "panic"]
            /\ lfd' = FALSE
            /\ UNCHANGED <<lfile, lops>>
       ELSE \E ok \in BOOLEAN :
              /\ Try("write_all", ok, "set_permissions")
              /\ \E k \in 0..Len(decoded'.acc) :
                    /\ ok => k = Len(decoded'.acc)
                    /\ lfile' = [lfile EXCEPT !.bytes = SubSeq(decoded'.acc, 1, k)]
              /\ lfd' = ok
    /\ UNCHANGED <<artifact, PAYLOAD>>

\* file.set_permissions(Permissions::from_mode(0o755))?
SetPermissions ==
    /\ lpc = "set_permissions"
    /\ \E ok \in BOOLEAN :
         /\ Try("set_permissions", ok, "sync_all")
         /\ lfile' = IF ok THEN [lfile EXCEPT !.mode = MODE_0755] ELSE lfile
         /\ lfd' = ok
    /\ UNCHANGED codecVars

\* file.sync_all()?
SyncAll ==
    /\ lpc = "sync_all"
    /\ \E ok \in BOOLEAN :
         /\ Try("sync_all", ok, "drop")
         /\ lfile' = IF ok THEN [lfile EXCEPT !.synced = TRUE] ELSE lfile
         /\ lfd' = ok
    /\ UNCHANGED codecVars

\* drop(file): the descriptor is closed, an error of close is not reported
DropFile ==
    /\ lpc = "drop"
    /\ Try("drop", TRUE, "exec")
    /\ lfd' = FALSE
    /\ UNCHANGED <<lfile, codecVars>>

\* Err(Command::new(PATH).exec()): exec returns only when it failed
Exec ==
    /\ lpc = "exec"
    /\ \E ok \in BOOLEAN :
         /\ lops' = Append(lops, [op |-> "exec", ok |-> ok])
         /\ IF ok
            THEN /\ lpc' = "replaced"
                 /\ lret' = [ended |-> "replaced", err |-> "none",
                             image |-> lfile.bytes, args |-> <<>>]
            ELSE /\ lpc' = "exited"
                 /\ lret' = [lret EXCEPT !.ended = "Err", !.err = "exec"]
    /\ UNCHANGED <<lfile, lfd, codecVars>>

NextLoader ==
    \/ Create /\ UNCHANGED <<resolverVars, buildVars>>
    \/ WriteAll /\ UNCHANGED <<resolverVars, buildVars>>
    \/ SetPermissions /\ UNCHANGED <<resolverVars, buildVars>>
    \/ SyncAll /\ UNCHANGED <<resolverVars, buildVars>>
    \/ DropFile /\ UNCHANGED <<resolverVars, buildVars>>
    \/ Exec /\ UNCHANGED <<resolverVars, buildVars>>

SpecLoader == InitLoader /\ [][NextLoader]_vars

MainOrder == <<"create", "write_all", "set_permissions", "sync_all", "drop", "exec">>

\* C8: main creates (or truncates) the file at PATH, writes the decoded payload,
\* sets mode 0755, syncs and closes it and then executes it without arguments,
\* in this order and each only after the one before succeeded; a failure of
\* create, write, set_permissions or sync ends main with that error and nothing
\* is executed, a failed exec ends it with that error, and main never returns Ok.
C8_LoaderOrder ==
    /\ Len(lops) <= Len(MainOrder)
    /\ \A i \in 1..Len(lops) :
          /\ lops[i].op = MainOrder[i]
          /\ i < Len(lops) => lops[i].ok
    /\ \A i \in 1..Len(lops) :
          ~lops[i].ok => /\ lpc = "exited"
                         /\ lret.ended = "Err" /\ lret.err = lops[i].op
                         /\ lops[i].op # "exec" => lret.image = <<>>
    /\ lret.ended \in {"no", "Err", "replaced"}
    /\ lpc = "exited" <=> lret.ended = "Err"
    /\ lpc = "replaced" <=> lret.ended = "replaced"
    /\ (Len(lops) >= 2 /\ lops[2].ok) => lfile.bytes = artifact
    /\ (Len(lops) = 6) =>
          /\ lfile.exists /\ lfile.bytes = artifact
          /\ lfile.mode = MODE_0755 /\ lfile.synced /\ ~lfd
    /\ lret.ended = "replaced" =>
          /\ lret.image = artifact /\ lret.args = <<>>
          /\ Len(lops) = 6 /\ \A i \in 1..6 : lops[i].ok

\* every call succeeded and a two-byte artifact (one padded group) was executed
C8_Witness ==
    /\ lret.ended = "replaced"
    /\ Len(artifact) = 2
    /\ lret.image = artifact
    /\ lfile.mode = MODE_0755

====
